---------------------------- MODULE Spec2Model ----------------------------
(***************************************************************************)
(* Character-level RNN notebooks of pabair/ki-lecture:                     *)
(*   src/unnamed/part_000       "RNN for Classifying Names"                *)
(*   src/3_LanguageModel.ipynb  "Generating Names with a Character-Level   *)
(*                               RNN"                                      *)
(*                                                                         *)
(* Tensors are sequences of integers; a Python index i is position i+1.    *)
(* Words are sequences of one-character strings.  Floating point weights   *)
(* are integers, the learning rates are counted in units of 1/10000.       *)
(***************************************************************************)
EXTENDS Integers, Sequences, FiniteSets, TLC

VARIABLES
    notebook,       \* which program runs: "codec", "generation" or "classification"
    codec_call,     \* codec: the call just made (function, argument, result)
    codec_prev,     \* codec: symbol/index pairs of the call made before it
    pc,             \* where the notebook kernel is
    rnn,            \* the parameters of the global rnn
    grad,           \* the .grad accumulated on the parameters
    output,         \* the global name output; <<>> while it is not bound
    graph,          \* classification: the autograd graph behind the global output, "live" or "freed"
    glob,           \* the other global names the running cell has bound
    frame,          \* the local names of the running function call
    iter,           \* training iterations (generation) / examples (classification) completed
    call,           \* observer: the operation in progress, its arguments and its outcome
    cells,          \* observer: the cell steps of the operation in progress, oldest first
    picks,          \* observer: the indices argmax selected in the operation in progress
    updates,        \* observer: the number of optimizer.step() calls made so far
    example,        \* generation: the tensors passed to train, as the running cell sees them
    seen            \* observer: a generation call that returned earlier, with its parameters and its word

codec_vars == <<notebook, codec_call, codec_prev>>

vars == <<notebook, codec_call, codec_prev, pc, rnn, grad, output, graph, glob, frame, iter, call, cells, picks, updates, example, seen>>

-----------------------------------------------------------------------------
(* The vocabulary and the category list                                    *)

all_letters ==
    << "a", "b", "c", "d", "e", "f", "g", "h", "i", "j", "k", "l", "m",
       "n", "o", "p", "q", "r", "s", "t", "u", "v", "w", "x", "y", "z",
       "A", "B", "C", "D", "E", "F", "G", "H", "I", "J", "K", "L", "M",
       "N", "O", "P", "Q", "R", "S", "T", "U", "V", "W", "X", "Y", "Z",
       " ", ".", ",", ";", "'" >>

\* the letters and one more index for the end of the sequence
n_letters_with_EOS == Len(all_letters) + 1

n_letters == Len(all_letters)

\* the categories are the names of the files of data/names, in glob order
all_categories == << "English", "German", "Korean", "Dutch", "Czech" >>

n_categories == Len(all_categories)

\* the name the model gives to the end-of-sequence marker ("# EOS")
EOS == "<EOS>"

-----------------------------------------------------------------------------
(* Python primitives used by the notebooks                                 *)

\* a value returned, or an exception raised
Ok(v) == [ok |-> TRUE, val |-> v]
Raise(e) == [ok |-> FALSE, err |-> e]

\* str.find / list.index: position of the first occurrence, 0-based
FirstPos(s, c) == CHOOSE i \in 1..Len(s) : s[i] = c /\ \A j \in 1..(i-1) : s[j] # c

\* str.find(c): -1 when c does not occur
Find(s, c) == IF \E i \in 1..Len(s) : s[i] = c THEN FirstPos(s, c) - 1 ELSE -1

\* like str.find: -1 when c does not occur
IndexOrMinusOne(s, c) == IF \E i \in 1..Len(s) : s[i] = c THEN Ok(FirstPos(s, c) - 1) ELSE Ok(-1)

\* list.index(c): ValueError when c does not occur
Index(s, c) == IF \E i \in 1..Len(s) : s[i] = c THEN Ok(FirstPos(s, c) - 1) ELSE Raise("ValueError")

\* torch.zeros(n)
Zeros(n) == [i \in 1..n |-> 0]

\* a Python/torch index into a dimension of size n: negative indices count
\* from the end, anything outside -n..n-1 is an IndexError
PyIndex(n, i) == IF 0 <= i /\ i < n THEN Ok(i + 1) ELSE IF -n <= i /\ i < 0 THEN Ok(n + i + 1) ELSE Raise("IndexError")

\* tensor[i] = v
SetItem(t, i, v) == IF PyIndex(Len(t), i).ok THEN Ok([t EXCEPT ![PyIndex(Len(t), i).val] = v]) ELSE Raise("IndexError")

\* tensor[i]
GetItem(t, i) == IF PyIndex(Len(t), i).ok THEN Ok(t[PyIndex(Len(t), i).val]) ELSE Raise("IndexError")

\* the index of the first smallest value
Argmin(t) == (CHOOSE i \in 1..Len(t) : (\A j \in 1..Len(t) : t[j] >= t[i]) /\ (\A j \in 1..(i - 1) : t[j] > t[i])) - 1

\* torch.argmax(t, 1): the index of the first maximal value
Argmax(t) == (CHOOSE i \in 1..Len(t) : (\A j \in 1..Len(t) : t[j] <= t[i]) /\ (\A j \in 1..(i-1) : t[j] < t[i])) - 1

-----------------------------------------------------------------------------
(* Vocabulary codec                                                        *)

\* part_000: letterToTensor(letter), the one row of the <1 x n_letters> tensor
letterToTensor(letter) == SetItem(Zeros(n_letters), Find(all_letters, letter), 1)

\* one-hot row of a letter, as written by tensor[li][0][all_letters.find(letter)] = 1
OneHotRow(letter) == SetItem(Zeros(n_letters), Find(all_letters, letter), 1).val

\* part_000: lineToTensor(line), the rows of the <line_length x 1 x n_letters> tensor
lineToTensor(line) == Ok([i \in 1..Len(line) |-> OneHotRow(line[i])])

\* tensor[li][0][all_letters.find(line[0])] = 1
inputTensorFirstLetter(line) == Ok([li \in 1..Len(line) |-> OneHotRow(line[1])])

\* 3_LanguageModel: inputTensor(line)
inputTensor(line) == Ok([li \in 1..Len(line) |-> OneHotRow(line[li])])

\* the indices of the first to the last letter, then EOS
targetTensorUnshifted(line) == Ok([li \in 1..Len(line) |-> Find(all_letters, line[li])] \o <<n_letters - 1>>)

\* 3_LanguageModel: targetTensor(line)
targetTensor(line) == Ok([li \in 1..(Len(line) - 1) |-> Find(all_letters, line[li + 1])] \o <<n_letters - 1>>)

\* the number of dimensions of the tensor torch.LongTensor(letter_indexes)
targetTensor_dim == 1

\* tensor[0][li + 1] = 1
categoryTensorShifted(category) == IF Index(all_categories, category).ok THEN SetItem(Zeros(n_categories), (Index(all_categories, category).val + 1) % n_categories, 1) ELSE Raise("ValueError")

\* 3_LanguageModel: categoryTensor(category)
categoryTensor(category) == IF Index(all_categories, category).ok THEN SetItem(Zeros(n_categories), Index(all_categories, category).val, 1) ELSE Raise("ValueError")

\* part_000: categoryToTensor(category), the one element of the LongTensor
categoryToTensor(category) == Index(all_categories, category)

\* sample_word: what the decoder makes of the index top_i
\*   if top_i == n_letters - 1: break  /  letter = all_letters[top_i]
DecodeIndex(top_i) == IF top_i = n_letters - 1 THEN EOS ELSE all_letters[top_i + 1]

-----------------------------------------------------------------------------
(* Bounds of the model                                                     *)

\* hidden layer width (128 in both notebooks)
hidden_size == 2

\* number of initial parameter values the model starts from
NSeeds == 2

\* iterations of the generation training loop (n_iters = 100000)
n_iters == 1

\* len(X_train) and len(X_test) of the classification notebook
NTrain == 2

NTest == 2

-----------------------------------------------------------------------------
(* Program constants                                                       *)

max_length == 20

\* torch.optim.SGD(rnn.parameters(), lr=0.005), in units of 1/10000
lr == 50

\* learning_rate = 0.0005, in units of 1/10000
learning_rate == 5

\* for epoch in range(1, 10)
n_epochs == 9

\* def predict(input_line, n_predictions=5)
n_predictions == 5

-----------------------------------------------------------------------------
(* The recurrent cells.  nn.Linear(in, out) is y = W v + b.  The initial   *)
(* parameters (random in torch) are one of NSeeds integer parameter sets.  *)
(* Terms with a zero factor are left out of the sums.                      *)

\* the columns at which v is not zero, in increasing order
Support(v) == SelectSeq([c \in 1..Len(v) |-> c], LAMBDA c : v[c] # 0)

\* initial weight of row r, column c of a layer, for seed s
InitWeight(s, layer, r, c) == ((s * 7 + layer * 13 + r * 31 + c * 17 + r * c) % 7) - 3

\* initial bias of row r of a layer, for seed s
InitBias(s, layer, r) == ((s * 5 + layer * 3 + r * 11) % 5) - 2

\* layers of the generation network: i2h = 1, i2o = 2, o2o = 3;
\* layers of the classification network: i2h = 4, i2o = 5
\* i2h: the hidden-to-hidden block is a permutation matrix
i2h_weight(s, r, c) == IF c > n_categories + n_letters THEN (IF (r + (c - n_categories - n_letters) + s) % hidden_size = 0 THEN 1 ELSE 0) ELSE InitWeight(s, 1, r, c)

\* part_000, i2h: the hidden-to-hidden block is a permutation matrix
i2h_cls_weight(s, r, c) == IF c > n_letters THEN (IF (r + (c - n_letters) + s) % hidden_size = 0 THEN 1 ELSE 0) ELSE InitWeight(s, 4, r, c)

\* the weight of row r, column c of a layer
Weight(s, layer, r, c) == IF layer = 1 THEN i2h_weight(s, r, c) ELSE IF layer = 4 THEN i2h_cls_weight(s, r, c) ELSE InitWeight(s, layer, r, c)

RECURSIVE DotFrom(_, _, _, _, _, _)
\* row r of W v for a layer: the sum of W[r][c] * v[c] over the columns c = cols[k], cols[k+1], ...
DotFrom(s, layer, r, v, cols, k) == IF k > Len(cols) THEN 0 ELSE Weight(s, layer, r, cols[k]) * v[cols[k]] + DotFrom(s, layer, r, v, cols, k + 1)

\* o2o: row r is zero outside the hidden columns and the output columns r and r+1
o2o_cols(r) == [h \in 1..hidden_size |-> h] \o <<hidden_size + r, hidden_size + (r % n_letters) + 1>>

\* self.i2h(input_combined)
i2h(s, v) == LET S == Support(v) IN [r \in 1..hidden_size |-> InitBias(s, 1, r) + DotFrom(s, 1, r, v, S, 1)]

\* self.i2o(input_combined)
i2o(s, v) == LET S == Support(v) IN [r \in 1..n_letters |-> InitBias(s, 2, r) + DotFrom(s, 2, r, v, S, 1)]

\* self.o2o(output_combined); its bias is the part of the parameters training moves
o2o(p, v) == [r \in 1..n_letters |-> p.bias[r] + DotFrom(p.seed, 3, r, v, o2o_cols(r), 1)]

\* torch.ones(1, self.hidden_size)
initHiddenOnes == [h \in 1..hidden_size |-> 1]

\* 3_LanguageModel: RNN.initHidden
initHidden == Zeros(hidden_size)

\* 3_LanguageModel: RNN.forward(category, x, hidden)
forward(p, category, x0, hidden) ==
    LET input_combined == category \o x0 \o hidden
        hidden1 == i2h(p.seed, input_combined)
        output1 == i2o(p.seed, input_combined)
        output_combined == hidden1 \o output1
    IN [output |-> o2o(p, output_combined), hidden |-> hidden1]

\* RNN(n_letters, 128, n_letters) with its initial parameters
NewRNN(s) == [seed |-> s, bias |-> [r \in 1..n_letters |-> InitBias(s, 3, r)]]

\* part_000: self.i2h(combined)
i2h_cls(s, v) == LET S == Support(v) IN [r \in 1..hidden_size |-> InitBias(s, 4, r) + DotFrom(s, 4, r, v, S, 1)]

\* part_000: self.i2o(combined); its bias is the part of the parameters training moves
i2o_cls(p, v) == LET S == Support(v) IN [r \in 1..n_categories |-> p.bias[r] + DotFrom(p.seed, 5, r, v, S, 1)]

\* the output projected from the new hidden state instead of the previous one
forward_cls_chained(p, x0, hidden) ==
    LET combined == x0 \o hidden
        hidden1 == i2h_cls(p.seed, combined)
    IN [output |-> i2o_cls(p, x0 \o hidden1), hidden |-> hidden1]

\* part_000: RNN.forward(x, hidden)
forward_cls(p, x0, hidden) ==
    LET combined == x0 \o hidden
    IN [output |-> i2o_cls(p, combined), hidden |-> i2h_cls(p.seed, combined)]

\* part_000: RNN(n_letters, n_categories) with its initial parameters
NewRNNCls(s) == [seed |-> s, bias |-> [r \in 1..n_categories |-> InitBias(s, 5, r)]]

-----------------------------------------------------------------------------
(* Inputs the model draws from                                             *)

\* category_lines: the lines read from data/names/[category].txt, already
\* passed through unicodeToAscii (so they hold vocabulary letters only)
category_lines ==
    [c \in {all_categories[k] : k \in 1..n_categories} |->
        CASE c = "English" -> << <<"O", "'">> >>
          [] c = "German"  -> << <<"M", "e", "r">> >>
          [] c = "Korean"  -> << <<"K", "i", "m">> >>
          [] c = "Dutch"   -> << <<>> >>
          [] OTHER         -> << <<"B">> >>]

\* the categories random.choice(all_categories) is taken to return
TrainCategories == {"English", "Korean", "Dutch"}

\* the start letters given to the generation cells
StartLetters == { <<>>, <<"B">>, <<"M", "e", "r">>, <<"#">> }

\* the categories given to the generation cells
StartCategories == {"German", "Korean", "Klingon"}

Seeds == 1..NSeeds

-----------------------------------------------------------------------------
(* Observers                                                               *)

NoCall == [op |-> "none", status |-> "none"]

\* a call of op with arguments word and category has started
Running(op, word, category) == [op |-> op, word |-> word, category |-> category, status |-> "running"]

\* the running call returned value v
Returned(c, v) == [c EXCEPT !.status = "returned"] @@ [result |-> v]

\* the running call (or cell) ended with the exception e
Raised(c, e) == [c EXCEPT !.status = "raised"] @@ [err |-> e]

\* one cell step: what went in and what came out
CellStep(category, x0, hidden_in, r) == [category |-> category, x |-> x0, hidden_in |-> hidden_in, output |-> r.output, hidden |-> r.hidden]

NoFrame == [fn |-> "none"]

\* no call is remembered
NoSeen == [op |-> "none"]

\* train was not called yet
NoExample == [line |-> <<>>, category |-> "", target_dim |-> 0]

NoGlob == [cell |-> "none"]

-----------------------------------------------------------------------------
(* 3_LanguageModel.ipynb: sample_word(start_letter, category)              *)

\* letter + output_name
AddLetterInFront(output_name, letter) == <<letter>> \o output_name

\* the letter appended twice
AddLetterTwice(output_name, letter) == Append(Append(output_name, letter), letter)

\* output_name += letter
AddLetter(output_name, letter) == Append(output_name, letter)

\* the call, up to the loop
SampleWordEnter(start_letter, category) ==
    /\ notebook = "generation"
    /\ pc = "idle"
    /\ cells' = <<>>
    /\ picks' = <<>>
    /\ IF categoryTensor(category).ok
         THEN /\ frame' = [fn |-> "sample_word",
                           category_tensor |-> categoryTensor(category).val,
                           x |-> inputTensor(start_letter).val,
                           hidden |-> initHidden,
                           output |-> <<>>,
                           output_name |-> start_letter,
                           i |-> 0]
              /\ call' = Running("sample_word", start_letter, category)
              /\ pc' = "sw_for"
         ELSE /\ frame' = NoFrame
              /\ call' = Raised(Running("sample_word", start_letter, category), "ValueError")
              /\ pc' = "done"
    /\ UNCHANGED <<rnn, grad, output, glob, iter, updates, graph, example, seen, codec_vars>>

\* for i in range(max_length): output, hidden = rnn(category_tensor, x[0], hidden)
SampleWordStep ==
    /\ pc = "sw_for"
    /\ IF frame.i >= max_length
         THEN /\ pc' = "sw_return"
              /\ UNCHANGED <<frame, call, cells>>
         ELSE IF ~GetItem(frame.x, 0).ok
         THEN /\ pc' = "done"
              /\ call' = Raised(call, "IndexError")
              /\ UNCHANGED <<frame, cells>>
         ELSE \E r \in {forward(rnn, frame.category_tensor, GetItem(frame.x, 0).val, frame.hidden)} :
                 /\ frame' = [frame EXCEPT !.output = r.output, !.hidden = r.hidden]
                 /\ cells' = Append(cells, CellStep(frame.category_tensor, GetItem(frame.x, 0).val, frame.hidden, r))
                 /\ pc' = "sw_pick"
                 /\ UNCHANGED call
    /\ UNCHANGED <<rnn, grad, output, glob, iter, picks, updates, graph, example, seen, codec_vars>>

\* top_i = argmax; break on n_letters - 1; else append the letter and encode it
SampleWordPick ==
    /\ pc = "sw_pick"
    /\ LET top_i == Argmax(frame.output)
       IN /\ picks' = Append(picks, top_i)
          /\ IF top_i = n_letters - 1
               THEN /\ pc' = "sw_return"
                    /\ UNCHANGED frame
               ELSE LET letter == all_letters[top_i + 1]
                    IN /\ frame' = [frame EXCEPT !.output_name = AddLetter(@, letter),
                                                   !.x = inputTensor(<<letter>>).val,
                                                   !.i = @ + 1]
                       /\ pc' = "sw_for"
    /\ UNCHANGED <<rnn, grad, output, glob, iter, call, cells, updates, graph, example, seen, codec_vars>>

\* return output_name
SampleWordReturn ==
    /\ pc = "sw_return"
    /\ call' = Returned(call, frame.output_name)
    /\ pc' = "done"
    /\ UNCHANGED <<rnn, grad, output, glob, frame, iter, cells, picks, updates, graph, example, seen, codec_vars>>

-----------------------------------------------------------------------------
(* 3_LanguageModel.ipynb: the cell generating from several start letters   *)

\* category_tensor = ...; hidden = rnn.initHidden(); output_name = start_letters
MultiEnter(start_letters, category) ==
    /\ notebook = "generation"
    /\ pc = "idle"
    /\ cells' = <<>>
    /\ picks' = <<>>
    /\ IF categoryTensor(category).ok
         THEN /\ glob' = [cell |-> "multi",
                          start_letters |-> start_letters,
                          category_tensor |-> categoryTensor(category).val,
                          x |-> <<>>,
                          hidden |-> initHidden,
                          output_name |-> start_letters,
                          i |-> 0]
              /\ call' = Running("multi", start_letters, category)
              /\ pc' = "ml_feed"
         ELSE /\ glob' = NoGlob
              /\ call' = Raised(Running("multi", start_letters, category), "ValueError")
              /\ pc' = "done"
    /\ UNCHANGED <<rnn, grad, output, frame, iter, updates, graph, example, seen, codec_vars>>

\* for i in range(len(start_letters)): x = inputTensor(start_letters[i]); output, hidden = rnn(...)
MultiFeed ==
    /\ pc = "ml_feed"
    /\ IF glob.i >= Len(glob.start_letters)
         THEN /\ glob' = [glob EXCEPT !.i = 0]
              /\ pc' = "ml_for"
              /\ UNCHANGED <<output, cells>>
         ELSE \E x \in {inputTensor(<<glob.start_letters[glob.i + 1]>>).val} :
              \E r \in {forward(rnn, glob.category_tensor, GetItem(x, 0).val, glob.hidden)} :
                 /\ glob' = [glob EXCEPT !.x = x, !.hidden = r.hidden, !.i = @ + 1]
                 /\ output' = r.output
                 /\ cells' = Append(cells, CellStep(glob.category_tensor, GetItem(x, 0).val, glob.hidden, r))
                 /\ pc' = "ml_feed"
    /\ UNCHANGED <<rnn, grad, frame, iter, call, picks, updates, graph, example, seen, codec_vars>>

\* for i in range(max_length): top_i = argmax(output); break on n_letters - 1;
\* else append the letter and encode it
MultiPick ==
    /\ pc = "ml_for"
    /\ IF glob.i >= max_length
         THEN /\ pc' = "ml_end"
              /\ UNCHANGED <<glob, call, picks>>
         ELSE IF output = <<>>
         THEN /\ pc' = "done"
              /\ call' = Raised(call, "NameError")
              /\ UNCHANGED <<glob, picks>>
         ELSE LET top_i == Argmax(output)
              IN /\ picks' = Append(picks, top_i)
                 /\ UNCHANGED call
                 /\ IF top_i = n_letters - 1
                      THEN /\ pc' = "ml_end"
                           /\ UNCHANGED glob
                      ELSE LET letter == all_letters[top_i + 1]
                           IN /\ glob' = [glob EXCEPT !.output_name = AddLetter(@, letter),
                                                        !.x = inputTensor(<<letter>>).val]
                              /\ pc' = "ml_step"
    /\ UNCHANGED <<rnn, grad, output, frame, iter, cells, updates, graph, example, seen, codec_vars>>

\* the last line of the loop body, run on a fresh hidden state
MultiStepFreshHidden ==
    /\ pc = "ml_step"
    /\ \E r \in {forward(rnn, glob.category_tensor, GetItem(glob.x, 0).val, initHidden)} :
          /\ glob' = [glob EXCEPT !.hidden = r.hidden, !.i = @ + 1]
          /\ output' = r.output
          /\ cells' = Append(cells, CellStep(glob.category_tensor, GetItem(glob.x, 0).val, initHidden, r))
    /\ pc' = "ml_for"
    /\ UNCHANGED <<rnn, grad, frame, iter, call, picks, updates, graph, example, seen, codec_vars>>

\* output, hidden = rnn(category_tensor, x[0], hidden), the last line of the loop body
MultiStep ==
    /\ pc = "ml_step"
    /\ \E r \in {forward(rnn, glob.category_tensor, GetItem(glob.x, 0).val, glob.hidden)} :
          /\ glob' = [glob EXCEPT !.hidden = r.hidden, !.i = @ + 1]
          /\ output' = r.output
          /\ cells' = Append(cells, CellStep(glob.category_tensor, GetItem(glob.x, 0).val, glob.hidden, r))
    /\ pc' = "ml_for"
    /\ UNCHANGED <<rnn, grad, frame, iter, call, picks, updates, graph, example, seen, codec_vars>>

\* output_name, the value of the cell
MultiEnd ==
    /\ pc = "ml_end"
    /\ call' = Returned(call, glob.output_name)
    /\ pc' = "done"
    /\ UNCHANGED <<rnn, grad, output, glob, frame, iter, cells, picks, updates, graph, example, seen, codec_vars>>

-----------------------------------------------------------------------------
(* Loss and gradient.  nn.CrossEntropyLoss()(output, target) is kept as    *)
(* the pair (index the output ranks first, target index); its gradient     *)
(* with respect to the last bias, softmax(output) - onehot(target), is     *)
(* quantised to onehot(argmax(output)) - onehot(target).  Only the bias of *)
(* the last projection is followed through training.                       *)

\* the gradients left as they are
keep_grad(g) == g

\* rnn.zero_grad() and optimizer.zero_grad()
zero_grad(g) == Zeros(Len(g))

\* criterion(output, target): target is a tensor of target_dim dimensions
criterion(out, target, target_dim) == IF target_dim # 1 THEN Raise("RuntimeError") ELSE IF target < 0 \/ target >= Len(out) THEN Raise("IndexError") ELSE Ok([predicted |-> Argmax(out), target |-> target])

\* what loss.backward() adds to .grad, loss being the sequence of the summed terms
LossGrad(loss, n) == [r \in 1..n |-> Cardinality({k \in 1..Len(loss) : loss[k].predicted = r - 1}) - Cardinality({k \in 1..Len(loss) : loss[k].target = r - 1})]

\* loss.backward()
backward(g, loss) == [r \in 1..Len(g) |-> g[r] + LossGrad(loss, Len(g))[r]]

\* optimizer.step() of torch.optim.SGD(rnn.parameters(), lr=0.005)
\* a step up the gradient instead of down
optimizer_step_ascent(p, g) == [p EXCEPT !.bias = [r \in 1..Len(g) |-> p.bias[r] + lr * g[r]]]

optimizer_step(p, g) == [p EXCEPT !.bias = [r \in 1..Len(g) |-> p.bias[r] - lr * g[r]]]

-----------------------------------------------------------------------------
(* 3_LanguageModel.ipynb: the training loop and train()                    *)

\* for iter in range(1, n_iters + 1): train(*randomTrainingExample()), up to the loop of train
TrainEnter(category, k) ==
    /\ notebook = "generation"
    /\ pc = "idle"
    /\ iter < n_iters
    /\ LET line == category_lines[category][k]
       IN /\ frame' = [fn |-> "train",
                       category_tensor |-> categoryTensor(category).val,
                       input_line_tensor |-> inputTensor(line).val,
                       target_line_tensor |-> targetTensor(line).val,
                       target_dim |-> targetTensor_dim + 1,
                       hidden |-> initHidden,
                       output |-> <<>>,
                       loss |-> <<>>,
                       i |-> 0]
          /\ call' = Running("train", line, category)
    /\ grad' = zero_grad(grad)
    /\ cells' = <<>>
    /\ picks' = <<>>
    /\ pc' = "train_for"
    /\ example' = [line |-> category_lines[category][k],
                    category |-> category,
                    category_tensor |-> categoryTensor(category).val,
                    input_line_tensor |-> inputTensor(category_lines[category][k]).val,
                    target_line_tensor |-> targetTensor(category_lines[category][k]).val,
                    target_dim |-> targetTensor_dim + 1]
    /\ UNCHANGED <<rnn, output, glob, iter, updates, graph, seen, codec_vars>>

\* train(*example) once more, in the cell whose call of train has just returned,
\* on the tensors that call was given: target_line_tensor.unsqueeze_(-1) adds
\* one more dimension to the caller's tensor
TrainAgain ==
    /\ pc = "done"
    /\ call.op = "train"
    /\ call.status = "returned"
    /\ frame' = [fn |-> "train",
                  category_tensor |-> example.category_tensor,
                  input_line_tensor |-> example.input_line_tensor,
                  target_line_tensor |-> example.target_line_tensor,
                  target_dim |-> example.target_dim + 1,
                  hidden |-> initHidden,
                  output |-> <<>>,
                  loss |-> <<>>,
                  i |-> 0]
    /\ example' = [example EXCEPT !.target_dim = @ + 1]
    /\ call' = Running("train", example.line, example.category)
    /\ grad' = zero_grad(grad)
    /\ cells' = <<>>
    /\ picks' = <<>>
    /\ pc' = "train_for"
    /\ UNCHANGED <<rnn, output, glob, iter, updates, graph, seen, codec_vars>>

\* for i in range(input_line_tensor.size(0)): output, hidden = rnn(...); loss += criterion(...)
TrainStep ==
    /\ pc = "train_for"
    /\ IF frame.i >= Len(frame.input_line_tensor)
         THEN /\ pc' = "train_backward"
              /\ UNCHANGED <<frame, call, cells>>
         ELSE \E r \in {forward(rnn, frame.category_tensor, frame.input_line_tensor[frame.i + 1], frame.hidden)} :
              \E l \in {criterion(r.output, frame.target_line_tensor[frame.i + 1], frame.target_dim - 1)} :
                 /\ cells' = Append(cells, CellStep(frame.category_tensor, frame.input_line_tensor[frame.i + 1], frame.hidden, r))
                 /\ IF l.ok
                      THEN /\ frame' = [frame EXCEPT !.output = r.output, !.hidden = r.hidden,
                                                     !.loss = Append(@, l.val), !.i = @ + 1]
                           /\ pc' = "train_for"
                           /\ UNCHANGED call
                      ELSE /\ frame' = [frame EXCEPT !.output = r.output, !.hidden = r.hidden]
                           /\ call' = Raised(call, l.err)
                           /\ pc' = "done"
    /\ UNCHANGED <<rnn, grad, output, glob, iter, picks, updates, graph, example, seen, codec_vars>>

\* loss.backward() that takes the int 0 for a loss with no terms
TrainBackwardOfZero ==
    /\ pc = "train_backward"
    /\ grad' = backward(grad, frame.loss)
    /\ pc' = "train_update"
    /\ UNCHANGED <<rnn, output, glob, frame, iter, call, cells, picks, updates, graph, example, seen, codec_vars>>

\* loss.backward(); loss is still the int 0 when the loop body never ran
TrainBackward ==
    /\ pc = "train_backward"
    /\ IF frame.loss = <<>>
         THEN /\ call' = Raised(call, "AttributeError")
              /\ pc' = "done"
              /\ UNCHANGED grad
         ELSE /\ grad' = backward(grad, frame.loss)
              /\ pc' = "train_update"
              /\ UNCHANGED call
    /\ UNCHANGED <<rnn, output, glob, frame, iter, cells, picks, updates, graph, example, seen, codec_vars>>

\* optimizer.step()
TrainUpdate ==
    /\ pc = "train_update"
    /\ rnn' = optimizer_step(rnn, grad)
    /\ updates' = updates + 1
    /\ pc' = "train_return"
    /\ UNCHANGED <<grad, output, glob, frame, iter, call, cells, picks, graph, example, seen, codec_vars>>

\* return output, loss.item() / input_line_tensor.size(0), bound by the loop
\* to the global names output and loss
TrainReturn ==
    /\ pc = "train_return"
    /\ output' = frame.output
    /\ iter' = iter + 1
    /\ call' = Returned(call, Len(frame.loss))
    /\ pc' = "done"
    /\ UNCHANGED <<rnn, grad, glob, frame, cells, picks, updates, graph, example, seen, codec_vars>>

-----------------------------------------------------------------------------
(* The kernel between two operations                                       *)

\* the operation is over; its local names are gone
NextCell ==
    /\ pc = "done"
    /\ pc' = "idle"
    /\ frame' = NoFrame
    /\ glob' = NoGlob
    /\ call' = NoCall
    /\ cells' = <<>>
    /\ picks' = <<>>
    /\ example' = NoExample
    /\ UNCHANGED <<rnn, grad, output, iter, updates, graph, seen, codec_vars>>

NoCodecCall == [fn |-> "none", assoc |-> {}]

InitLM ==
    /\ notebook = "generation"
    /\ pc = "idle"
    /\ rnn \in {NewRNN(s) : s \in Seeds}
    /\ grad = Zeros(n_letters)
    /\ output = <<>>
    /\ graph = "none"
    /\ glob = NoGlob
    /\ frame = NoFrame
    /\ iter = 0
    /\ call = NoCall
    /\ cells = <<>>
    /\ picks = <<>>
    /\ updates = 0
    /\ codec_call = NoCodecCall
    /\ codec_prev = {}
    /\ example = NoExample
    /\ seen = NoSeen

NextLM ==
    \/ \E w \in StartLetters, c \in StartCategories : SampleWordEnter(w, c)
    \/ SampleWordStep
    \/ SampleWordPick
    \/ SampleWordReturn
    \/ \E w \in StartLetters, c \in StartCategories : MultiEnter(w, c)
    \/ MultiFeed
    \/ MultiPick
    \/ MultiStep
    \/ MultiEnd
    \/ \E c \in TrainCategories : \E k \in 1..Len(category_lines[c]) : TrainEnter(c, k)
    \/ TrainAgain
    \/ TrainStep
    \/ TrainBackward
    \/ TrainUpdate
    \/ TrainReturn
    \/ NextCell

SpecLM == InitLM /\ [][NextLM]_vars

-----------------------------------------------------------------------------
(* part_000: inputs of the classification notebook                         *)

\* (line, category) pairs the data holds; lines went through unicodeToAscii
ClsPairs == { [line |-> <<"K", "i", "m">>, category |-> "Korean"],
              [line |-> <<"O", "'">>, category |-> "English"],
              [line |-> <<>>, category |-> "Dutch"] }

\* X_train with y_train, and X_test with y_test
TrainSets == [1..NTrain -> ClsPairs]

TestSets == [1..NTest -> ClsPairs]

\* the words given to predict
PredictLines == { <<"K", "i", "m">>, <<>>, <<"S", "#">> }

\* line_tensor[-1 - i]
RowFromEnd(line_tensor, i) == line_tensor[Len(line_tensor) - i]

\* line_tensor[i]
Row(line_tensor, i) == line_tensor[i + 1]

\* softmax(o)[k + 1] = exp(o[k + 1]) / sum of exp(o[j]): kept as the logit and the vector it is normalised over
SoftmaxAt(o, k) == [logit |-> o[k + 1], over |-> o]

\* output.topk(n, 1, True): the indices of the n largest values, largest first;
\* which of several equal values comes first is not specified
\* topk with largest=False: the n smallest entries, smallest first
TopkSmallest(o, n) == {s \in [1..n -> 0..(Len(o) - 1)] : /\ \A a, b \in 1..n : a < b => (s[a] # s[b] /\ o[s[a] + 1] <= o[s[b] + 1])
                                                         /\ \A j \in 0..(Len(o) - 1) : (\A a \in 1..n : s[a] # j) => (\A a \in 1..n : o[s[a] + 1] <= o[j + 1])}

Topk(o, n) == {s \in [1..n -> 0..(Len(o) - 1)] : /\ \A a, b \in 1..n : a < b => (s[a] # s[b] /\ o[s[a] + 1] >= o[s[b] + 1])
                                                 /\ \A j \in 0..(Len(o) - 1) : (\A a \in 1..n : s[a] # j) => (\A a \in 1..n : o[s[a] + 1] >= o[j + 1])}

-----------------------------------------------------------------------------
(* part_000: the training loop                                             *)

\* current_loss = 0; all_losses = []; for epoch in range(1, 10):
ClsTrainEnter(X) ==
    /\ notebook = "classification"
    /\ pc = "idle"
    /\ iter = 0
    /\ glob' = [cell |-> "train", X |-> X, epoch |-> 1, next |-> 0, i |-> 0, inner |-> 0,
                hidden |-> <<>>, line_tensor |-> <<>>, category_tensor |-> 0,
                loss |-> <<>>, current_loss |-> <<>>, all_losses |-> <<>>]
    /\ call' = Running("train_loop", <<>>, "")
    /\ cells' = <<>>
    /\ picks' = <<>>
    /\ pc' = "tl_outer"
    /\ UNCHANGED <<rnn, grad, output, frame, iter, updates, graph, example, seen, codec_vars>>

\* for i in range(0, len(X_train)): the body up to the inner loop
ClsTrainNext ==
    /\ pc = "tl_outer"
    /\ IF glob.next >= Len(glob.X)
         THEN /\ pc' = "tl_epoch_end"
              /\ UNCHANGED <<glob, grad, cells>>
         ELSE /\ glob' = [glob EXCEPT !.i = glob.next,
                                      !.next = @ + 1,
                                      !.hidden = initHidden,
                                      !.line_tensor = lineToTensor(glob.X[glob.next + 1].line).val,
                                      !.category_tensor = categoryToTensor(glob.X[glob.next + 1].category).val,
                                      !.inner = 0]
              /\ grad' = zero_grad(grad)
              /\ cells' = <<>>
              /\ pc' = "tl_inner"
    /\ UNCHANGED <<rnn, output, frame, iter, call, picks, updates, graph, example, seen, codec_vars>>

\* for i in range(line_tensor.size()[0]): output, hidden = rnn(line_tensor[i], hidden)
ClsTrainStep ==
    /\ pc = "tl_inner"
    /\ IF glob.inner >= Len(glob.line_tensor)
         THEN /\ pc' = "tl_loss"
              /\ UNCHANGED <<glob, output, graph, cells>>
         ELSE \E r \in {forward_cls(rnn, Row(glob.line_tensor, glob.inner), glob.hidden)} :
                 /\ glob' = [glob EXCEPT !.i = glob.inner, !.inner = @ + 1, !.hidden = r.hidden]
                 /\ output' = r.output
                 /\ graph' = "live"
                 /\ cells' = Append(cells, CellStep(<<>>, Row(glob.line_tensor, glob.inner), glob.hidden, r))
                 /\ pc' = "tl_inner"
    /\ UNCHANGED <<rnn, grad, frame, iter, call, picks, updates, example, seen, codec_vars>>

\* the loss followed by optimizer.step(), loss.backward() left for later
ClsTrainLossThenStep ==
    /\ pc = "tl_loss"
    /\ glob' = [glob EXCEPT !.loss = <<criterion(output, glob.category_tensor, 1).val>>]
    /\ pc' = "tl_update"
    /\ UNCHANGED <<rnn, grad, output, frame, iter, call, cells, picks, updates, graph, example, seen, codec_vars>>

\* loss = criterion(output, category_tensor)
ClsTrainLoss ==
    /\ pc = "tl_loss"
    /\ glob' = [glob EXCEPT !.loss = <<criterion(output, glob.category_tensor, 1).val>>]
    /\ pc' = "tl_backward"
    /\ UNCHANGED <<rnn, grad, output, frame, iter, call, cells, picks, updates, graph, example, seen, codec_vars>>

\* loss.backward(): a graph is walked once, its buffers are freed by the walk
ClsTrainBackward ==
    /\ pc = "tl_backward"
    /\ IF graph = "freed"
         THEN /\ call' = Raised(call, "RuntimeError")
              /\ pc' = "done"
              /\ UNCHANGED <<grad, graph>>
         ELSE /\ grad' = backward(grad, glob.loss)
              /\ graph' = "freed"
              /\ pc' = "tl_update"
              /\ UNCHANGED call
    /\ UNCHANGED <<rnn, output, glob, frame, iter, cells, picks, updates, example, seen, codec_vars>>

\* optimizer.step() made twice
ClsTrainUpdateTwice ==
    /\ pc = "tl_update"
    /\ rnn' = optimizer_step(optimizer_step(rnn, grad), grad)
    /\ updates' = updates + 2
    /\ pc' = "tl_accum"
    /\ UNCHANGED <<grad, output, glob, frame, iter, call, cells, picks, graph, example, seen, codec_vars>>

\* optimizer.step()
ClsTrainUpdate ==
    /\ pc = "tl_update"
    /\ rnn' = optimizer_step(rnn, grad)
    /\ updates' = updates + 1
    /\ pc' = "tl_accum"
    /\ UNCHANGED <<grad, output, glob, frame, iter, call, cells, picks, graph, example, seen, codec_vars>>

\* current_loss += loss.item(): the sum is kept as the sequence of its terms
ClsTrainAccum ==
    /\ pc = "tl_accum"
    /\ glob' = [glob EXCEPT !.current_loss = @ \o glob.loss]
    /\ iter' = iter + 1
    /\ pc' = "tl_outer"
    /\ UNCHANGED <<rnn, grad, output, frame, call, cells, picks, updates, graph, example, seen, codec_vars>>

\* the end of an epoch without "current_loss = 0"
ClsTrainEpochEndNoReset ==
    /\ pc = "tl_epoch_end"
    /\ IF glob.epoch >= n_epochs
         THEN /\ glob' = [glob EXCEPT !.all_losses = Append(@, glob.current_loss)]
              /\ call' = Returned(call, glob.epoch)
              /\ pc' = "done"
         ELSE /\ glob' = [glob EXCEPT !.all_losses = Append(@, glob.current_loss),
                                      !.epoch = @ + 1, !.next = 0]
              /\ pc' = "tl_outer"
              /\ UNCHANGED call
    /\ UNCHANGED <<rnn, grad, output, frame, iter, cells, picks, updates, graph, example, seen, codec_vars>>

\* all_losses.append(current_loss); print(...); current_loss = 0; next epoch
ClsTrainEpochEnd ==
    /\ pc = "tl_epoch_end"
    /\ IF glob.epoch >= n_epochs
         THEN /\ glob' = [glob EXCEPT !.all_losses = Append(@, glob.current_loss), !.current_loss = <<>>]
              /\ call' = Returned(call, glob.epoch)
              /\ pc' = "done"
         ELSE /\ glob' = [glob EXCEPT !.all_losses = Append(@, glob.current_loss), !.current_loss = <<>>,
                                      !.epoch = @ + 1, !.next = 0]
              /\ pc' = "tl_outer"
              /\ UNCHANGED call
    /\ UNCHANGED <<rnn, grad, output, frame, iter, cells, picks, updates, graph, example, seen, codec_vars>>

-----------------------------------------------------------------------------
(* part_000: the evaluation loop                                           *)

\* correct = 0; for i in range(0, len(X_test)):
EvalEnter(X) ==
    /\ notebook = "classification"
    /\ pc = "idle"
    /\ glob' = [cell |-> "eval", X |-> X, next |-> 0, i |-> 0, inner |-> 0,
                hidden |-> <<>>, line_tensor |-> <<>>, category |-> "", correct |-> 0]
    /\ call' = Running("eval", <<>>, "")
    /\ cells' = <<>>
    /\ picks' = <<>>
    /\ pc' = "ev_outer"
    /\ UNCHANGED <<rnn, grad, output, frame, iter, updates, graph, example, seen, codec_vars>>

\* the body up to the inner loop; after the last example print(correct/len(X_test))
EvalNext ==
    /\ pc = "ev_outer"
    /\ IF glob.next >= Len(glob.X)
         THEN /\ call' = Returned(call, glob.correct)
              /\ pc' = "done"
              /\ UNCHANGED <<glob, cells>>
         ELSE /\ glob' = [glob EXCEPT !.i = glob.next,
                                      !.next = @ + 1,
                                      !.hidden = initHidden,
                                      !.line_tensor = lineToTensor(glob.X[glob.next + 1].line).val,
                                      !.category = glob.X[glob.next + 1].category,
                                      !.inner = 0]
              /\ cells' = <<>>
              /\ pc' = "ev_inner"
              /\ UNCHANGED call
    /\ UNCHANGED <<rnn, grad, output, frame, iter, picks, updates, graph, example, seen, codec_vars>>

\* for i in range(line_tensor.size()[0]): output, hidden = rnn(line_tensor[i], hidden)
EvalStep ==
    /\ pc = "ev_inner"
    /\ IF glob.inner >= Len(glob.line_tensor)
         THEN /\ pc' = "ev_predict"
              /\ UNCHANGED <<glob, output, graph, cells>>
         ELSE \E r \in {forward_cls(rnn, Row(glob.line_tensor, glob.inner), glob.hidden)} :
                 /\ glob' = [glob EXCEPT !.i = glob.inner, !.inner = @ + 1, !.hidden = r.hidden]
                 /\ output' = r.output
                 /\ graph' = "live"
                 /\ cells' = Append(cells, CellStep(<<>>, Row(glob.line_tensor, glob.inner), glob.hidden, r))
                 /\ pc' = "ev_inner"
    /\ UNCHANGED <<rnn, grad, frame, iter, call, picks, updates, example, seen, codec_vars>>

\* the prediction followed by loss.backward() and optimizer.step()
EvalPredictAndStep ==
    /\ pc = "ev_predict"
    /\ picks' = Append(picks, Argmax(output))
    /\ glob' = [glob EXCEPT !.correct = IF Index(all_categories, glob.category).val = Argmax(output) THEN @ + 1 ELSE @]
    /\ rnn' = optimizer_step(rnn, backward(Zeros(n_categories), <<criterion(output, Index(all_categories, glob.category).val, 1).val>>))
    /\ pc' = "ev_outer"
    /\ UNCHANGED <<grad, output, frame, iter, call, cells, updates, graph, example, seen, codec_vars>>

\* prediction = argmax(output); if all_categories.index(category) == prediction: correct += 1
EvalPredict ==
    /\ pc = "ev_predict"
    /\ picks' = Append(picks, Argmax(output))
    /\ glob' = [glob EXCEPT !.correct = IF Index(all_categories, glob.category).val = Argmax(output) THEN @ + 1 ELSE @]
    /\ pc' = "ev_outer"
    /\ UNCHANGED <<rnn, grad, output, frame, iter, call, cells, updates, graph, example, seen, codec_vars>>

-----------------------------------------------------------------------------
(* part_000: predict(input_line, n_predictions=5)                          *)

\* hidden = rnn.initHidden(); line_tensor = lineToTensor(input_line)
PredictEnter(input_line) ==
    /\ notebook = "classification"
    /\ pc = "idle"
    /\ frame' = [fn |-> "predict", hidden |-> initHidden, line_tensor |-> lineToTensor(input_line).val,
                 output |-> <<>>, i |-> 0, topi |-> <<>>]
    /\ call' = Running("predict", input_line, "")
    /\ cells' = <<>>
    /\ picks' = <<>>
    /\ pc' = "pr_inner"
    /\ UNCHANGED <<rnn, grad, output, glob, iter, updates, graph, example, seen, codec_vars>>

\* for i in range(line_tensor.size()[0]): output, hidden = rnn(line_tensor[i], hidden)
PredictStep ==
    /\ pc = "pr_inner"
    /\ IF frame.i >= Len(frame.line_tensor)
         THEN /\ pc' = "pr_topk"
              /\ UNCHANGED <<frame, cells>>
         ELSE \E r \in {forward_cls(rnn, Row(frame.line_tensor, frame.i), frame.hidden)} :
                 /\ frame' = [frame EXCEPT !.output = r.output, !.hidden = r.hidden, !.i = @ + 1]
                 /\ cells' = Append(cells, CellStep(<<>>, Row(frame.line_tensor, frame.i), frame.hidden, r))
                 /\ pc' = "pr_inner"
    /\ UNCHANGED <<rnn, grad, output, glob, iter, call, picks, updates, graph, example, seen, codec_vars>>

\* output = torch.softmax(output, 1); topv, topi = output.topk(n_predictions, 1, True)
\* output is a local name of predict: it is not bound when the loop body never ran
PredictTopk ==
    /\ pc = "pr_topk"
    /\ IF frame.output = <<>>
         THEN /\ call' = Raised(call, "UnboundLocalError")
              /\ pc' = "done"
              /\ UNCHANGED frame
         ELSE IF n_predictions > Len(frame.output)
         THEN /\ call' = Raised(call, "RuntimeError")
              /\ pc' = "done"
              /\ UNCHANGED frame
         ELSE \E s \in Topk(frame.output, n_predictions) :
                 /\ frame' = [frame EXCEPT !.topi = s]
                 /\ pc' = "pr_print"
                 /\ UNCHANGED call
    /\ UNCHANGED <<rnn, grad, output, glob, iter, cells, picks, updates, graph, example, seen, codec_vars>>

\* for i in range(n_predictions): print('(%.2f) %s' % (value, all_categories[category_index]))
PredictPrint ==
    /\ pc = "pr_print"
    /\ call' = Returned(call, [k \in 1..n_predictions |-> [value |-> SoftmaxAt(frame.output, frame.topi[k]), category |-> all_categories[frame.topi[k] + 1]]])
    /\ pc' = "done"
    /\ UNCHANGED <<rnn, grad, output, glob, frame, iter, cells, picks, updates, graph, example, seen, codec_vars>>

\* the state after the cell "rnn = RNN(n_letters, n_categories); x = letterToTensor('A');
\* hidden = torch.zeros(1, 128); output, next_hidden = rnn(x, hidden)"
InitCls ==
    /\ notebook = "classification"
    /\ pc = "idle"
    /\ rnn \in {NewRNNCls(s) : s \in Seeds}
    /\ grad = Zeros(n_categories)
    /\ output = forward_cls(rnn, letterToTensor("A").val, Zeros(hidden_size)).output
    /\ graph = "live"
    /\ glob = NoGlob
    /\ frame = NoFrame
    /\ iter = 0
    /\ call = NoCall
    /\ cells = <<>>
    /\ picks = <<>>
    /\ updates = 0
    /\ codec_call = NoCodecCall
    /\ codec_prev = {}
    /\ example = NoExample
    /\ seen = NoSeen

NextCls ==
    \/ \E X \in TrainSets : ClsTrainEnter(X)
    \/ ClsTrainNext
    \/ ClsTrainStep
    \/ ClsTrainLoss
    \/ ClsTrainBackward
    \/ ClsTrainUpdate
    \/ ClsTrainAccum
    \/ ClsTrainEpochEnd
    \/ \E X \in TestSets : EvalEnter(X)
    \/ EvalNext
    \/ EvalStep
    \/ EvalPredict
    \/ \E w \in PredictLines : PredictEnter(w)
    \/ PredictStep
    \/ PredictTopk
    \/ PredictPrint
    \/ NextCell

SpecCls == InitCls /\ [][NextCls]_vars

-----------------------------------------------------------------------------
(* The codec functions called on their own                                 *)

\* the symbols given to the codec: the vocabulary and two symbols outside it
CodecSymbols == {all_letters[k] : k \in 1..n_letters} \cup {"#", "1"}

\* the lines given to the codec
CodecLines == { <<>>, <<"K", "i", "m">>, <<"O", "'">>, <<"S", "#">> }

\* the category labels given to the codec
CodecCategories == {all_categories[k] : k \in 1..n_categories} \cup {"Klingon"}

\* the indices at which a row is not zero, 0-based
HotIndices(row) == {k - 1 : k \in {j \in 1..Len(row) : row[j] # 0}}

\* the (symbol, index) pairs a call of an encoder of rows shows
RowPairs(line, res) == IF res.ok THEN UNION {{<<line[k], j>> : j \in HotIndices(res.val[k])} : k \in 1..Len(line)} ELSE {}

\* the (symbol, index) pairs a call of targetTensor shows
TargetPairs(line, res) == IF res.ok THEN {<<line[k + 1], res.val[k]>> : k \in 1..(Len(line) - 1)} \cup {<<EOS, res.val[Len(res.val)]>>} ELSE {}

CodecDone(fn, arg, res, pairs) ==
    /\ notebook = "codec"
    /\ codec_call' = [fn |-> fn, arg |-> arg, res |-> res, assoc |-> pairs]
    /\ codec_prev' = codec_call.assoc
    /\ UNCHANGED <<notebook, pc, rnn, grad, output, graph, glob, frame, iter, call, cells, picks, updates, example, seen>>

CallLetterToTensor(letter) == CodecDone("letterToTensor", <<letter>>, letterToTensor(letter), IF letterToTensor(letter).ok THEN {<<letter, j>> : j \in HotIndices(letterToTensor(letter).val)} ELSE {})

CallLineToTensor(line) == CodecDone("lineToTensor", line, lineToTensor(line), RowPairs(line, lineToTensor(line)))

CallInputTensor(line) == CodecDone("inputTensor", line, inputTensor(line), RowPairs(line, inputTensor(line)))

CallTargetTensor(line) == CodecDone("targetTensor", line, targetTensor(line), TargetPairs(line, targetTensor(line)))

CallCategoryTensor(category) == CodecDone("categoryTensor", <<category>>, categoryTensor(category), {})

CallCategoryToTensor(category) == CodecDone("categoryToTensor", <<category>>, categoryToTensor(category), {})

\* the decoder of sample_word and of the multi-letter cell, given the index argmax returned
CallDecode(top_i) == CodecDone("decode", <<top_i>>, Ok(DecodeIndex(top_i)), {<<DecodeIndex(top_i), top_i>>})

InitCodec ==
    /\ notebook = "codec"
    /\ codec_call = NoCodecCall
    /\ codec_prev = {}
    /\ pc = "idle"
    /\ rnn = NewRNN(1)
    /\ grad = Zeros(n_letters)
    /\ output = <<>>
    /\ graph = "none"
    /\ glob = NoGlob
    /\ frame = NoFrame
    /\ iter = 0
    /\ call = NoCall
    /\ cells = <<>>
    /\ picks = <<>>
    /\ updates = 0
    /\ example = NoExample
    /\ seen = NoSeen

NextCodec ==
    \/ \E letter \in CodecSymbols : CallLetterToTensor(letter)
    \/ \E line \in CodecLines : CallLineToTensor(line)
    \/ \E line \in CodecLines : CallInputTensor(line)
    \/ \E line \in CodecLines : CallTargetTensor(line)
    \/ \E category \in CodecCategories : CallCategoryTensor(category)
    \/ \E category \in CodecCategories : CallCategoryToTensor(category)
    \/ \E top_i \in 0..(n_letters - 1) : CallDecode(top_i)

SpecCodec == InitCodec /\ [][NextCodec]_vars

-----------------------------------------------------------------------------
(* 3_LanguageModel.ipynb: generation calls repeated on the same parameters *)

\* the start letters and the category of the repeated calls
RepeatLetters == { <<>>, <<"B">> }

RepeatCategories == {"German"}

\* the observer keeps the generation call that has just returned
Remember ==
    /\ pc = "done"
    /\ call.op \in {"sample_word", "multi"}
    /\ call.status = "returned"
    /\ seen' = [op |-> call.op, word |-> call.word, category |-> call.category, rnn |-> rnn, result |-> call.result, cells |-> cells]
    /\ UNCHANGED <<pc, rnn, grad, output, graph, glob, frame, iter, call, cells, picks, updates, example, codec_vars>>

NextRepeat ==
    \/ \E w \in RepeatLetters, c \in RepeatCategories : SampleWordEnter(w, c)
    \/ SampleWordStep
    \/ SampleWordPick
    \/ SampleWordReturn
    \/ \E w \in RepeatLetters, c \in RepeatCategories : MultiEnter(w, c)
    \/ MultiFeed
    \/ MultiPick
    \/ MultiStep
    \/ MultiEnd
    \/ TrainEnter("Korean", 1)
    \/ TrainStep
    \/ TrainBackward
    \/ TrainUpdate
    \/ TrainReturn
    \/ NextCell
    \/ Remember

SpecRepeat == InitLM /\ [][NextRepeat]_vars

-----------------------------------------------------------------------------
(* The three programs together                                             *)

Init == InitCodec \/ InitLM \/ InitCls

Next == NextCodec \/ NextLM \/ NextCls

Spec == Init /\ [][Next]_vars

-----------------------------------------------------------------------------
(* Properties                                                              *)

Vocabulary == {all_letters[k] : k \in 1..n_letters}

GenerationOps == {"sample_word", "multi"}

KnownCategories == {all_categories[k] : k \in 1..n_categories}

\* the (symbol, index) pairs of vocabulary symbols and of the end marker that
\* the last two codec calls showed
ShownPairs == {p \in codec_prev \cup codec_call.assoc : p[1] \in Vocabulary \cup {EOS}}

\* C1: every vocabulary symbol and the end-of-sequence marker is encoded to
\* and decoded from an index in [0, V), the end marker has index V - 1, and no
\* two distinct symbols are ever encoded to or decoded from the same index.
C1_UniqueStableIndex ==
    /\ \A p \in ShownPairs : p[2] \in 0..(n_letters - 1)
    /\ \A p \in ShownPairs : p[1] = EOS => p[2] = n_letters - 1
    /\ \A p, q \in ShownPairs : p[1] # q[1] => p[2] # q[2]

\* the encoders of symbols
SymbolEncoders == {"letterToTensor", "lineToTensor", "inputTensor", "targetTensor"}

\* C2: encoding a symbol that is not in the vocabulary fails at the point of
\* encoding; no vector or index is returned for such a symbol.
C2_UnknownSymbolFails ==
    (codec_call.fn \in SymbolEncoders /\ \E k \in 1..Len(codec_call.arg) : codec_call.arg[k] \notin Vocabulary)
        => ~codec_call.res.ok

\* a generation call on a known category is over
GenerationOver == call.op \in GenerationOps /\ pc = "done" /\ call.category \in KnownCategories

\* C3: for every known category, every seed and every parameter value a
\* generation call returns (it does not raise), and the sequence it returns
\* has at most max_length + |seed| symbols.
C3_GenerateReturnsBounded ==
    GenerationOver => (call.status = "returned" /\ Len(call.result) <= max_length + Len(call.word))

\* the length bound of C3 for the calls that do return
C3_BoundWhenReturned ==
    (GenerationOver /\ call.status = "returned") => Len(call.result) <= max_length + Len(call.word)

\* C4: a word returned by sample_word or by the cell for several start
\* letters, start letters included, never has more than 20 characters.
C4_WordAtMostTwentyCharacters ==
    (GenerationOver /\ call.status = "returned") => Len(call.result) <= max_length

\* the indices picked while decoding, the end marker's left out
GeneratedPicks == IF picks # <<>> /\ picks[Len(picks)] = n_letters - 1 THEN SubSeq(picks, 1, Len(picks) - 1) ELSE picks

\* C5: a generation call returns the seed symbols, unchanged and in order,
\* followed by exactly the symbols picked while decoding, in the order they
\* were picked; the end-of-sequence marker is not part of what is returned.
C5_SeedThenPickedSymbols ==
    (call.op \in GenerationOps /\ call.status = "returned") =>
        /\ call.result = call.word \o [k \in 1..Len(GeneratedPicks) |-> all_letters[GeneratedPicks[k] + 1]]
        /\ \A k \in 1..Len(GeneratedPicks) : GeneratedPicks[k] # n_letters - 1
        /\ \A k \in 1..Len(call.result) : call.result[k] # EOS

\* a returned word with seed, two picked letters and the end marker picked last
C5_Witness ==
    /\ call.op \in GenerationOps
    /\ call.status = "returned"
    /\ call.word # <<>>
    /\ Len(picks) >= 3
    /\ picks[Len(picks)] = n_letters - 1
    /\ Len(call.result) = Len(call.word) + Len(picks) - 1

\* the number of the cell step whose output pick number 1 is taken from, less one
PickBase == IF call.op = "sample_word" THEN 0 ELSE Len(call.word) - 1

\* index i holds a largest value of out
IsArgmax(i, out) == i \in 0..(Len(out) - 1) /\ \A j \in 1..Len(out) : out[j] <= out[i + 1]

\* the vector that is 1 at index i and 0 elsewhere
IsOneHot(x, i) == x = [j \in 1..n_letters |-> IF j = i + 1 THEN 1 ELSE 0]

\* C6: in each decoding iteration of a generation call the symbol picked is
\* the argmax of the output of the latest cell step; if it is the end marker
\* no further cell step is run; otherwise that symbol, and no other, is the
\* input of the next cell step, whose hidden input is the hidden state the
\* step before it produced.
C6_DecodingIteration ==
    call.op \in GenerationOps =>
        /\ Len(cells) <= (IF PickBase < 0 THEN 0 ELSE PickBase) + Len(picks) + 1
        /\ \A k \in 1..Len(picks) :
              /\ PickBase + k >= 1 => (PickBase + k <= Len(cells) /\ IsArgmax(picks[k], cells[PickBase + k].output))
              /\ picks[k] = n_letters - 1 => (k = Len(picks) /\ Len(cells) = PickBase + k)
              /\ (picks[k] # n_letters - 1 /\ PickBase + k + 1 <= Len(cells)) =>
                    /\ IsOneHot(cells[PickBase + k + 1].x, picks[k])
                    /\ PickBase + k >= 1 => cells[PickBase + k + 1].hidden_in = cells[PickBase + k].hidden

\* a generation call that picked two letters, ran a cell step after each, and
\* then picked the end marker
C6_Witness ==
    /\ call.op \in GenerationOps
    /\ call.status = "returned"
    /\ Len(picks) >= 3
    /\ picks[Len(picks)] = n_letters - 1
    /\ Len(cells) = PickBase + Len(picks)
    /\ cells[Len(cells)].hidden_in # Zeros(hidden_size)

\* C7: a generation call with an empty seed does not fail; its first cell
\* step is run on an all-zero input vector and a zero hidden state, and the
\* first symbol is picked from that step's output.
C7_EmptySeedStartsFromZeros ==
    (GenerationOver /\ call.word = <<>>) =>
        /\ call.status = "returned"
        /\ cells # <<>>
        /\ cells[1].x = Zeros(n_letters)
        /\ cells[1].hidden_in = Zeros(hidden_size)
        /\ picks # <<>>
        /\ IsArgmax(picks[1], cells[1].output)

\* C7, second half: with an empty seed the first symbol is not picked from
\* an output that an earlier cell left behind.
C7_NoLeftoverOutput ==
    (call.op = "multi" /\ call.word = <<>> /\ picks # <<>>) => cells # <<>>

\* C8: predict on a zero-length line returns, it does not raise.
C8_EmptyLineReturns ==
    (call.op = "predict" /\ call.word = <<>> /\ pc = "done") => call.status = "returned"

\* the line predict or the evaluation loop has just run through the cell
ClassifiedLine == IF call.op = "predict" THEN call.word ELSE glob.X[glob.next].line

\* the output predict or the evaluation loop takes its result from
ClassifyOutput == IF call.op = "predict" THEN frame.output ELSE output

\* the cell steps of the line are over and its result is being taken or was taken
Classified ==
    \/ call.op = "predict" /\ pc \in {"pr_topk", "pr_print", "done"}
    \/ call.op = "eval" /\ pc = "ev_predict"

\* C9: for a line of n >= 1 characters predict and the evaluation loop feed
\* the characters to the cell in order, the hidden state step i returned is
\* the hidden input of step i + 1 (zeros for step 1), and the result is
\* taken from the output of step n, a vector of n_categories values.
C9_ResultIsLastStepOutput ==
    (Classified /\ Len(ClassifiedLine) >= 1) =>
        LET n == Len(ClassifiedLine)
        IN /\ Len(cells) = n
           /\ \A k \in 1..n : cells[k].x = [j \in 1..n_letters |-> IF j - 1 = Find(all_letters, ClassifiedLine[k]) % n_letters THEN 1 ELSE 0]
           /\ cells[1].hidden_in = Zeros(hidden_size)
           /\ \A k \in 2..n : cells[k].hidden_in = cells[k - 1].hidden
           /\ ClassifyOutput = cells[n].output
           /\ Len(ClassifyOutput) = n_categories
           /\ (call.op = "predict" /\ call.status = "returned") =>
                 \A k \in 1..Len(call.result) : call.result[k].value.over = cells[n].output

\* predict returned for a line of three characters whose first and last
\* steps gave different outputs
C9_Witness ==
    /\ call.op = "predict"
    /\ call.status = "returned"
    /\ Len(call.word) = 3
    /\ Len(cells) = 3
    /\ cells[1].output # cells[3].output
    /\ cells[3].hidden_in # Zeros(hidden_size)

\* the update of the running example was applied and the example is not yet counted
UpdateApplied == pc \in {"train_return", "tl_accum"}

\* C10: every completed run of train and of the body of the classification
\* training loop applied exactly one update to the parameters, after all the
\* time steps of its example: after k completed runs k updates were applied,
\* and the parameters change at no other step.
C10_OneUpdatePerExample ==
    /\ [](updates = iter + (IF UpdateApplied THEN 1 ELSE 0))
    /\ []((pc = "train_update" \/ pc = "train_return") => Len(cells) = Len(frame.input_line_tensor))
    /\ []((pc = "tl_update" \/ pc = "tl_accum") => Len(cells) = Len(glob.line_tensor))
    /\ [][rnn' # rnn => updates' = updates + 1]_vars

\* two runs of the body of the classification training loop are complete,
\* the second on a line of three characters, and the parameters have changed
C10_Witness ==
    /\ notebook = "classification"
    /\ pc = "tl_outer"
    /\ iter = 2
    /\ updates = 2
    /\ Len(cells) = 3
    /\ rnn \notin {NewRNNCls(s) : s \in Seeds}

\* train completed once and the one update changed the parameters
C10_WitnessGeneration ==
    /\ notebook = "generation"
    /\ call.op = "train"
    /\ call.status = "returned"
    /\ iter = 1
    /\ updates = 1
    /\ rnn \notin {NewRNN(s) : s \in Seeds}

\* C11: while train runs on a line of n >= 1 characters, the input of cell
\* step i is the one-hot row of the i-th character of the line, the target of
\* the loss of step i < n is the index of character i + 1, the target of step
\* n is the end-of-sequence index, and the loss that is back-propagated is
\* the sum of exactly n per-step losses.
C11_TeacherForcing ==
    (call.op = "train" /\ call.status # "raised" /\ Len(call.word) >= 1) =>
        LET n == Len(call.word)
        IN /\ Len(cells) <= n
           /\ Len(frame.loss) = Len(cells)
           /\ \A k \in 1..Len(cells) :
                 /\ cells[k].x = [j \in 1..n_letters |-> IF all_letters[j] = call.word[k] THEN 1 ELSE 0]
                 /\ k < n => \E j \in 1..n_letters : all_letters[j] = call.word[k + 1] /\ frame.loss[k].target = j - 1
                 /\ k = n => frame.loss[k].target = n_letters - 1
           /\ pc \in {"train_update", "train_return", "done"} => Len(frame.loss) = n

\* train returned for a line of three characters
C11_Witness ==
    /\ call.op = "train"
    /\ call.status = "returned"
    /\ Len(call.word) = 3
    /\ Len(frame.loss) = 3
    /\ updates = 1

\* C12: the hidden-state input of the first cell step of every sequence
\* (training example, predict call, evaluation example, generation call) is
\* the all-zero vector of width hidden_size, whatever was processed before.
C12_FirstHiddenIsZero ==
    cells # <<>> => cells[1].hidden_in = [h \in 1..hidden_size |-> 0]

\* the second example of the classification training loop has run its first
\* cell step, after a first example of at least one character
C12_Witness ==
    /\ notebook = "classification"
    /\ call.op = "train_loop"
    /\ iter = 1
    /\ Len(glob.X[1].line) >= 1
    /\ Len(cells) = 1
    /\ glob.hidden # Zeros(hidden_size)

\* the operations that only run the network: predict, the evaluation loop,
\* sample_word and the multi-letter cell
RunnerOps == {"predict", "eval", "sample_word", "multi"}

\* C13: the parameters are changed only by optimizer.step() of train and of
\* the classification training loop; no step of predict, of the evaluation
\* loop, of sample_word or of the multi-letter cell changes them.
C13_OnlyTrainerChangesParameters ==
    [][/\ rnn' # rnn => pc \in {"train_update", "tl_update"}
       /\ (call.op \in RunnerOps \/ call'.op \in RunnerOps) => rnn' = rnn]_vars

\* the evaluation loop ran to its end on trained parameters
C13_Witness ==
    /\ call.op = "eval"
    /\ call.status = "returned"
    /\ Len(picks) = NTest
    /\ updates >= 1
    /\ rnn \notin {NewRNNCls(s) : s \in Seeds}

\* C14: a call of train on a line of at least one character returns and
\* leaves the tensors it was given as they were built: the target tensor still
\* has the shape targetTensor gave it, so the same tensors can be passed to
\* train again.
C14_ExampleUnchanged ==
    (call.op = "train" /\ Len(call.word) >= 1 /\ pc = "done") =>
        /\ call.status = "returned"
        /\ example.target_line_tensor = targetTensor(call.word).val
        /\ example.target_dim = targetTensor_dim

\* C14, second half: a call of train on tensors that an earlier call was
\* given succeeds like the first.
C14_SameExampleAgain ==
    (call.op = "train" /\ Len(call.word) >= 1 /\ pc = "done" /\ frame.target_dim > targetTensor_dim + 1) =>
        call.status = "returned"

\* C15: for every symbol s of the vocabulary, decoding the index s was just
\* encoded to gives s back.
C15_RoundTrip ==
    codec_call.fn = "decode" =>
        \A p \in codec_prev : (p[1] \in Vocabulary /\ codec_call.arg = <<p[2]>>) => codec_call.res.val = p[1]

\* the round trip of C15 for every vocabulary symbol but the apostrophe
C15_RoundTripButApostrophe ==
    codec_call.fn = "decode" =>
        \A p \in codec_prev : (p[1] \in Vocabulary \ {"'"} /\ codec_call.arg = <<p[2]>>) => codec_call.res.val = p[1]

C17_UnknownCategoryFails ==
    /\ []((codec_call.fn \in {"categoryTensor", "categoryToTensor"} /\ codec_call.arg[1] \notin KnownCategories)
              => (~codec_call.res.ok /\ codec_call.res.err = "ValueError"))
    /\ []((call.op \in GenerationOps /\ call.category \notin KnownCategories)
              => (pc = "done" /\ call.status = "raised" /\ call.err = "ValueError" /\ cells = <<>> /\ picks = <<>>))
    /\ [][(call'.op \in GenerationOps /\ call'.category \notin KnownCategories) => rnn' = rnn]_vars

\* sample_word was called with a label outside all_categories, on parameters
\* that training had changed
C17_Witness ==
    /\ call.op = "sample_word"
    /\ call.category = "Klingon"
    /\ call.status = "raised"
    /\ updates >= 1

\* C18: for a line of vocabulary symbols inputTensor and lineToTensor return
\* exactly one row per character, row i being 1 at the index of the i-th
\* character and 0 elsewhere; the empty line gives no rows.
C18_OneRowPerCharacter ==
    (codec_call.fn \in {"inputTensor", "lineToTensor"} /\ \A k \in 1..Len(codec_call.arg) : codec_call.arg[k] \in Vocabulary) =>
        /\ codec_call.res.ok
        /\ Len(codec_call.res.val) = Len(codec_call.arg)
        /\ \A k \in 1..Len(codec_call.arg) :
              codec_call.res.val[k] = [j \in 1..n_letters |-> IF all_letters[j] = codec_call.arg[k] THEN 1 ELSE 0]

\* inputTensor returned three rows for a line of three characters, the first
\* and the last different
C18_Witness ==
    /\ codec_call.fn = "inputTensor"
    /\ codec_call.arg = <<"K", "i", "m">>
    /\ Len(codec_call.res.val) = 3
    /\ codec_call.res.val[1] # codec_call.res.val[3]

\* the generation call that has just returned has the operation, the start
\* letters, the category and the parameters of the remembered call
SameCallAsSeen ==
    /\ pc = "done"
    /\ call.op \in GenerationOps
    /\ call.status = "returned"
    /\ seen.op = call.op
    /\ seen.word = call.word
    /\ seen.category = call.category
    /\ seen.rnn = rnn

\* C19: on the same parameters, two generation calls with the same category
\* and start letters return the same word, whatever calls ran in between.
C19_SameCallSameWord ==
    SameCallAsSeen => call.result = seen.result

\* C19 for calls with at least one start letter
C19_SameWordForNonEmptySeed ==
    (SameCallAsSeen /\ call.word # <<>>) => call.result = seen.result

\* the bias of the last projection after one gradient-descent step of size
\* rate from the initial parameters
AfterFirstStep(rate) == [r \in 1..n_letters |-> NewRNN(rnn.seed).bias[r] - rate * grad[r]]

\* C20: the update train applies is one plain gradient-descent step whose
\* size is the configured learning_rate.
C20_StepIsLearningRate ==
    (pc = "train_return" /\ updates = 1) => rnn.bias = AfterFirstStep(learning_rate)

\* the step train applies has the size lr the optimizer was built with
C20_StepIsOptimizerLr ==
    (pc = "train_return" /\ updates = 1) => rnn.bias = AfterFirstStep(lr)

\* the steps of one training example, in both notebooks
ForwardPhase == {"train_for", "tl_inner"}

SeedOfVocabularySampled ==
    /\ call.op = "sample_word"
    /\ pc = "done"
    /\ call.category \in KnownCategories
    /\ call.word # <<>>
    /\ \A k \in 1..Len(call.word) : call.word[k] \in Vocabulary

Predicted == call.op = "predict" /\ pc = "done" /\ call.status = "returned"

-----------------------------------------------------------------------------
(* part_000: the training loop over the one example "Kim" / "Korean",      *)
(* followed by predict('Kim')                                              *)

\* X_train holding the example "Kim" labelled "Korean" and nothing else
KimOnly == [k \in 1..NTrain |-> [line |-> <<"K", "i", "m">>, category |-> "Korean"]]

NextKim ==
    \/ ClsTrainEnter(KimOnly)
    \/ ClsTrainNext
    \/ ClsTrainStep
    \/ ClsTrainLoss
    \/ ClsTrainBackward
    \/ ClsTrainUpdate
    \/ ClsTrainAccum
    \/ ClsTrainEpochEnd
    \/ PredictEnter(<<"K", "i", "m">>)
    \/ PredictStep
    \/ PredictTopk
    \/ PredictPrint
    \/ NextCell

SpecKim == InitCls /\ [][NextKim]_vars

\* the line on which predict printed category c
Rank(result, c) == CHOOSE k \in 1..Len(result) : result[k].category = c

\* the output of the classifier with parameters p for the word "Kim"
OutputForKim(p) ==
    LET s1 == forward_cls(p, letterToTensor("K").val, initHidden)
        s2 == forward_cls(p, letterToTensor("i").val, s1.hidden)
    IN  forward_cls(p, letterToTensor("m").val, s2.hidden).output

RECURSIVE RowSum(_, _, _, _, _)
\* the sum of W[r][c] * v[c] over every column c, c+1, ..., Len(v)
RowSum(s, layer, r, v, c) == IF c > Len(v) THEN 0 ELSE Weight(s, layer, r, c) * v[c] + RowSum(s, layer, r, v, c + 1)

\* an affine map: row r is bias[r] plus the sum of W[r][c] * v[c] over every column c
Affine(bias, s, layer, v) == [r \in 1..Len(bias) |-> bias[r] + RowSum(s, layer, r, v, 1)]

-----------------------------------------------------------------------------
(* RNN.forward of both notebooks, called on its own                        *)

\* previous hidden states
CellHiddens == [1..hidden_size -> {-1, 0, 2}]

\* the letters whose rows are given to the cell
CellLetters == {"A", "K", "'", "#"}

CellCategories == {"German", "Korean"}

\* output, hidden = rnn(x, hidden) of part_000, the first call on the network
CallForwardCls(x0, hidden) ==
    /\ notebook = "cell_classification"
    /\ cells = <<>>
    /\ cells' = <<CellStep(<<>>, x0, hidden, forward_cls(rnn, x0, hidden))>>
    /\ UNCHANGED <<notebook, pc, rnn, grad, output, graph, glob, frame, iter, call, picks, updates, example, seen, codec_vars>>

\* output, hidden = rnn(category_tensor, x, hidden) of 3_LanguageModel, the first call on the network
CallForward(category, x0, hidden) ==
    /\ notebook = "cell_generation"
    /\ cells = <<>>
    /\ cells' = <<CellStep(category, x0, hidden, forward(rnn, category, x0, hidden))>>
    /\ UNCHANGED <<notebook, pc, rnn, grad, output, graph, glob, frame, iter, call, picks, updates, example, seen, codec_vars>>

\* a network of either notebook, just constructed
InitCell ==
    /\ \/ notebook = "cell_classification" /\ rnn \in {NewRNNCls(s) : s \in Seeds}
       \/ notebook = "cell_generation" /\ rnn \in {NewRNN(s) : s \in Seeds}
    /\ pc = "idle"
    /\ grad = <<>>
    /\ output = <<>>
    /\ graph = "none"
    /\ glob = NoGlob
    /\ frame = NoFrame
    /\ iter = 0
    /\ call = NoCall
    /\ cells = <<>>
    /\ picks = <<>>
    /\ updates = 0
    /\ codec_call = NoCodecCall
    /\ codec_prev = {}
    /\ example = NoExample
    /\ seen = NoSeen

NextCellCall ==
    \/ \E l \in CellLetters, h \in CellHiddens : CallForwardCls(letterToTensor(l).val, h)
    \/ \E c \in CellCategories, l \in CellLetters, h \in CellHiddens : CallForward(categoryTensor(c).val, letterToTensor(l).val, h)

SpecCell == InitCell /\ [][NextCellCall]_vars

\* the biases a freshly constructed layer has
LayerBias(s, layer, n) == [r \in 1..n |-> InitBias(s, layer, r)]

C25_WitnessGeneration ==
    /\ notebook = "cell_generation"
    /\ Len(cells) = 1
    /\ cells[1].hidden_in # Zeros(hidden_size)

Decoded == SubSeq(call.result, Len(call.word) + 1, Len(call.result))

\* C27: the index n_letters - 1 that stands for the end of the sequence is
\* also the index of the apostrophe, the last letter of all_letters.  So the
\* letters appended by decoding never include the apostrophe: when the argmax
\* is n_letters - 1 the loop stops and appends nothing; and in training the
\* target of a step whose next character is the apostrophe is the same value
\* as the target of the last step, the end of the sequence.
C27_ApostropheIsEndOfSequence ==
    /\ Find(all_letters, "'") = n_letters - 1
    /\ (call.op \in GenerationOps /\ pc = "done" /\ call.status = "returned") =>
          /\ \A k \in 1..Len(Decoded) : Decoded[k] # "'"
          /\ \A k \in 1..Len(picks) : picks[k] = n_letters - 1 => k = Len(picks)
          /\ Len(Decoded) = Cardinality({k \in 1..Len(picks) : picks[k] # n_letters - 1})
    /\ (call.op = "train" /\ pc \in {"train_for", "train_backward", "train_update", "train_return"}) =>
          /\ Len(frame.target_line_tensor) = Len(call.word) + (IF call.word = <<>> THEN 1 ELSE 0)
          /\ frame.target_line_tensor[Len(frame.target_line_tensor)] = n_letters - 1
          /\ \A k \in 1..(Len(call.word) - 1) :
                call.word[k + 1] = "'" => frame.target_line_tensor[k] = frame.target_line_tensor[Len(call.word)]

\* train on the line "O'": the target of the step before the apostrophe and
\* the target of the last step are summed into the loss as the same value
C27_Witness ==
    /\ call.op = "train"
    /\ pc = "train_backward"
    /\ call.word = <<"O", "'">>
    /\ Len(frame.loss) = 2
    /\ frame.loss[1].target = frame.loss[2].target

\* a generation call that stopped on the argmax n_letters - 1 after it
\* appended a letter
C27_WitnessStop ==
    /\ call.op \in GenerationOps
    /\ pc = "done"
    /\ call.status = "returned"
    /\ Len(Decoded) >= 1
    /\ picks[Len(picks)] = n_letters - 1

\* a generation call with one start letter has returned, and the observer
\* holds the call of the other procedure with the same start letter and
\* category on the same parameters
OtherProcedureSeen ==
    /\ pc = "done"
    /\ call.op \in GenerationOps
    /\ call.status = "returned"
    /\ seen.op \in GenerationOps
    /\ seen.op # call.op
    /\ Len(call.word) = 1
    /\ seen.word = call.word
    /\ seen.category = call.category
    /\ seen.rnn = rnn

\* the cell steps of the call of sample_word and of the multi-letter cell
StepsOfSampleWord == IF call.op = "sample_word" THEN cells ELSE seen.cells

StepsOfMulti == IF call.op = "multi" THEN cells ELSE seen.cells

\* C28 as stated: for one start letter, sample_word and the cell for several
\* start letters run the same sequence of cell steps and return the same word.
C28_SameStepsSameWord ==
    OtherProcedureSeen => (call.result = seen.result /\ cells = seen.cells)

\* C28, amended: for one start letter the two procedures return the same
\* word, and the cell steps of sample_word are the first cell steps of the
\* multi-letter cell, which runs exactly one more cell step when max_length
\* letters were appended without the end of the sequence, and none otherwise.
C28_SameWordStepsPrefix ==
    OtherProcedureSeen =>
        /\ call.result = seen.result
        /\ Len(StepsOfMulti) >= Len(StepsOfSampleWord)
        /\ StepsOfSampleWord = SubSeq(StepsOfMulti, 1, Len(StepsOfSampleWord))
        /\ Len(StepsOfMulti) = Len(StepsOfSampleWord) + (IF Len(call.result) = Len(call.word) + max_length THEN 1 ELSE 0)

\* both procedures ran on one start letter and stopped on the end of the
\* sequence after the same cell steps, more than one
C28_Witness ==
    /\ OtherProcedureSeen
    /\ Len(cells) > 1
    /\ cells = seen.cells
    /\ Len(call.result) > 1

\* both procedures appended max_length letters; the multi-letter cell ran
\* one cell step more
C28_WitnessFullLength ==
    /\ OtherProcedureSeen
    /\ Len(call.result) = 1 + max_length
    /\ Len(StepsOfMulti) = Len(StepsOfSampleWord) + 1

\* the classification training loop is running
InTrainingLoop == call.op = "train_loop" /\ call.status = "running"

\* the body of the outer loop is running for one example
InExampleBody == pc \in {"tl_inner", "tl_loss", "tl_backward", "tl_update", "tl_accum"}

\* C29: the inner loop of the classification training loop binds the same
\* name i as the outer loop, and still every epoch takes the examples
\* 0 .. len(X_train) - 1 once each, in increasing order; each of the
\* n_epochs epochs appends one entry to all_losses, the sum over the
\* examples of that epoch, and sets current_loss back to 0.
C29_EpochsAndExamples ==
    /\ [](InTrainingLoop =>
            /\ glob.epoch \in 1..n_epochs
            /\ glob.next \in 0..Len(glob.X)
            /\ Len(glob.all_losses) = glob.epoch - 1
            /\ \A e \in 1..Len(glob.all_losses) : Len(glob.all_losses[e]) = Len(glob.X)
            /\ InExampleBody =>
                  /\ glob.next >= 1
                  /\ iter = (glob.epoch - 1) * Len(glob.X) + (glob.next - 1)
                  /\ glob.line_tensor = lineToTensor(glob.X[glob.next].line).val
                  /\ glob.category_tensor = categoryToTensor(glob.X[glob.next].category).val
            /\ pc \in {"tl_outer", "tl_epoch_end"} =>
                  /\ iter = (glob.epoch - 1) * Len(glob.X) + glob.next
                  /\ Len(glob.current_loss) = glob.next
            /\ pc = "tl_epoch_end" => glob.next = Len(glob.X))
    /\ []((call.op = "train_loop" /\ call.status = "returned") =>
            /\ Len(glob.all_losses) = n_epochs
            /\ glob.current_loss = <<>>
            /\ iter = n_epochs * Len(glob.X))
    /\ [][(InTrainingLoop /\ pc = "tl_epoch_end") =>
            /\ glob'.all_losses = Append(glob.all_losses, glob.current_loss)
            /\ glob'.current_loss = <<>>]_vars

\* in the second epoch, the body of the second example has run its inner
\* loop, which left i at the last row of the line, not at the example's index
C29_Witness ==
    /\ InTrainingLoop
    /\ pc = "tl_accum"
    /\ glob.epoch = 2
    /\ glob.next = 2
    /\ glob.i # glob.next - 1
    /\ Len(glob.all_losses) = 1

\* train was called on an example whose line is empty
TrainOnEmptyLine == call.op = "train" /\ call.word = <<>>

\* C30: train called on an example with an empty line (no input step, one
\* target, the end of the sequence) runs no cell step, ends with an error at
\* loss.backward() and applies no update: the parameters after the call are
\* the parameters before it.
C30_EmptyLineNoUpdate ==
    /\ [](TrainOnEmptyLine =>
            /\ frame.input_line_tensor = <<>>
            /\ frame.target_line_tensor = <<n_letters - 1>>
            /\ cells = <<>>
            /\ updates = iter
            /\ pc \in {"train_for", "train_backward", "done"}
            /\ pc = "done" => (call.status = "raised" /\ call.err = "AttributeError"))
    /\ [][(TrainOnEmptyLine \/ (call'.op = "train" /\ call'.word = <<>>)) => rnn' = rnn]_vars

\* train on the empty line has ended with the error
C30_Witness ==
    /\ TrainOnEmptyLine
    /\ pc = "done"
    /\ call.status = "raised"
    /\ call.err = "AttributeError"

\* train on the empty line is about to call loss.backward()
C30_WitnessBeforeError ==
    /\ TrainOnEmptyLine
    /\ pc = "train_backward"
    /\ frame.loss = <<>>

=============================================================================
